---------------------------- MODULE Spec2Model ----------------------------
(***************************************************************************)
(* A model of openfisca_core.datatables.DataTable: the storage of a flat   *)
(* (num_table = 1) or split (num_table = 3) population table, the index    *)
(* built by gen_index, and the readers and writers that go through it.     *)
(*                                                                         *)
(* Conventions.  A numpy array or a pandas column is a sequence; the row   *)
(* numbers stored in index arrays are the 0-based numbers of the code, so  *)
(* row i of array a is a[i + 1].  A DataFrame is a record [n, c]: its row  *)
(* count and its columns by name.  A boolean value is 0 or 1.  An          *)
(* operation that raises leaves kind = "error" in ret.                     *)
(***************************************************************************)
EXTENDS Integers, Sequences, FiniteSets, TLC

VARIABLES
    num_table,  \* self.num_table: 1 for the flat layout, 3 for the split one
    table,      \* self.table, the flat table
    table3,     \* self.table3, one table per entity
    index,      \* self.index
    nrows,      \* self._nrows
    ret,        \* the last call: its arguments and what it returned or raised
    build,      \* the last index build: the linking columns the storage lacked
                \* when it started, and its outcome
    written     \* the last set_value that returned: its arguments, and whether
                \* the set_value that returned before it had the same selection

vars == <<num_table, table, table3, index, nrows, ret, build, written>>

(***************************************************************************)
(* Bounds of the model.                                                    *)
(***************************************************************************)
\* individuals of a survey (rows of the individual table)
MaxInd == 2
\* identifiers of a composite entity are drawn from 1..MaxId
MaxId == 2
\* roles held by individuals are drawn from 0..MaxQui
MaxQui == 1
\* inflate is applied while the inflated values stay within MaxValue
MaxValue == 100

\* the greatest chunks_count a simulation is configured with
MaxChunks == 3

\* the greatest number of households (nmen) of a test case
MaxMen == 3

\* the number of years a survey store may hold, from 2001 on
MaxYear == 3

(***************************************************************************)
(* The entities and the column registry (model.ENTITIES_INDEX and          *)
(* column_by_name are handed to the DataTable by the country package).     *)
(***************************************************************************)
ENTITIES_INDEX == <<"men", "fam", "foy">>

list_entities == <<"ind">> \o ENTITIES_INDEX

Composite == {ENTITIES_INDEX[k] : k \in 1..Len(ENTITIES_INDEX)}

IdCol(entity) ==
    CASE entity = "men" -> "idmen" [] entity = "fam" -> "idfam" [] entity = "foy" -> "idfoy"

QuiCol(entity) ==
    CASE entity = "men" -> "quimen" [] entity = "fam" -> "quifam" [] entity = "foy" -> "quifoy"

LinkCols == {IdCol(e) : e \in Composite} \cup {QuiCol(e) : e \in Composite}

\* the role enumeration of qui<E>: one role more than the surveys use, so
\* that a role of the enumeration may be held by nobody
Enum == 0..(MaxQui + 1)

Col(entity, default, dtype) == [entity |-> entity, default |-> default, dtype |-> dtype]

column_by_name ==
    [name \in LinkCols \cup {"sal", "age", "inv", "loyer", "af", "irpp"} |->
        CASE name \in LinkCols -> Col("ind", 0, "int")
          [] name = "sal"   -> Col("ind", 0, "int")
          [] name = "age"   -> Col("ind", 7, "int")
          [] name = "inv"   -> Col("ind", 0, "bool")
          [] name = "loyer" -> Col("men", 9, "int")
          [] name = "af"    -> Col("fam", 9, "int")
          [] name = "irpp"  -> Col("foy", 9, "int")]

ColumnNames == DOMAIN column_by_name

ColumnsOf(entity) == {name \in ColumnNames : column_by_name[name].entity = entity}

(***************************************************************************)
(* numpy and pandas primitives.                                            *)
(***************************************************************************)
EmptyFn == [x \in {} |-> 0]

Range(s) == {s[k] : k \in 1..Len(s)}

RECURSIVE SortedSeq(_)
SortedSeq(S) ==
    IF S = {} THEN <<>>
    ELSE LET m == CHOOSE x \in S : \A y \in S : x <= y
         IN <<m>> \o SortedSeq(S \ {m})

\* np.unique(a): the distinct values of a in ascending order
Unique(a) == SortedSeq(Range(a))

\* np.searchsorted(a, v): binary search for the leftmost insertion point
RECURSIVE BinarySearch(_, _, _, _)
BinarySearch(a, v, lo, hi) ==
    IF lo >= hi THEN lo
    ELSE LET mid == lo + ((hi - lo) \div 2)
         IN IF a[mid + 1] < v THEN BinarySearch(a, v, mid + 1, hi)
            ELSE BinarySearch(a, v, lo, mid)

SearchSorted(a, v) == BinarySearch(a, v, 0, Len(a))

SearchSortedAll(a, vs) == [k \in 1..Len(vs) |-> SearchSorted(a, vs[k])]

\* np.sort(np.squeeze(np.argwhere(qui == person))): the rows holding person
ArgWhere(qui, person) == SortedSeq({i \in 0..(Len(qui) - 1) : qui[i + 1] = person})

\* a[I] for an index array I
Take(a, I) == [k \in 1..Len(I) |-> a[I[k] + 1]]

InRows(I, n) == \A k \in 1..Len(I) : I[k] >= 0 /\ I[k] < n

\* temp[I] = vals: assigned in order, so a repeated row keeps the last value;
\* a single value is broadcast
RECURSIVE ScatterFrom(_, _, _, _)
ScatterFrom(temp, I, vals, k) ==
    IF k > Len(I) THEN temp
    ELSE ScatterFrom([temp EXCEPT ![I[k] + 1] = IF Len(vals) = 1 THEN vals[1] ELSE vals[k]],
                     I, vals, k + 1)

\* Scatter that assigns to every row of temp, selected or not
ScatterOverAll(temp, I, vals) ==
    IF vals = <<>> THEN temp ELSE [k \in 1..Len(temp) |-> vals[1]]

Scatter(temp, I, vals) == ScatterFrom(temp, I, vals, 1)

CanScatter(temp, I, vals) ==
    /\ InRows(I, Len(temp))
    /\ Len(vals) = Len(I) \/ Len(vals) = 1

\* np.ones(nb, dtype) * dflt and np.zeros(nb, dtype)
Filled(nb, v) == [k \in 1..nb |-> v]

\* astype(dtype) / np.array(values, dtype = dtype)
CastBool(v) == IF v = 0 THEN 0 ELSE 1

CastInt(v) == v

Cast(dtype, v) == IF dtype = "bool" THEN CastBool(v) ELSE CastInt(v)

CastAll(dtype, a) == [k \in 1..Len(a) |-> Cast(dtype, a[k])]

AddArrays(a, b) == [k \in 1..Len(a) |-> a[k] + b[k]]

RECURSIVE SumArrays(_, _)
SumArrays(arrs, nb) ==
    IF arrs = <<>> THEN Filled(nb, 0)
    ELSE AddArrays(Head(arrs), SumArrays(Tail(arrs), nb))

Frame(n, c) == [n |-> n, c |-> c]

EmptyFrame == Frame(0, EmptyFn)

Ok(kind, val) == [kind |-> kind, val |-> val, names |-> {}]

Err(exc, names) == [kind |-> "error", val |-> exc, names |-> names]

(***************************************************************************)
(* gen_index.  The operators read the storage s = [num_table, table,       *)
(* table3, nrows] they are given, so that a handler can build the index of *)
(* the storage it has just written.                                        *)
(***************************************************************************)
Storage(nt, t, t3, n) == [num_table |-> nt, table |-> t, table3 |-> t3, nrows |-> n]

\* the table that carries the linking columns
IndTable(s) == IF s.num_table = 1 THEN s.table ELSE s.table3["ind"]

HasLinks(frame, entity) == {IdCol(entity), QuiCol(entity)} \subseteq DOMAIN frame.c

\* the first entity of the list whose linking columns cannot be read, 0 if none
FirstMissing(s, entities) ==
    LET bad == {k \in 1..Len(entities) : ~HasLinks(IndTable(s), entities[k])}
    IN IF bad = {} THEN 0 ELSE CHOOSE k \in bad : \A j \in bad : k <= j

\* the attribute whose read raises: id<E> is read before qui<E>
MissingAttr(frame, entity) ==
    IF IdCol(entity) \notin DOMAIN frame.c THEN IdCol(entity) ELSE QuiCol(entity)

AllRows(n) == [k \in 1..n |-> k - 1]

IndEntry(s) == [nb |-> s.nrows,
                person |-> (0 :> [idxIndi |-> AllRows(s.nrows), idxUnit |-> AllRows(s.nrows)]),
                ent |-> EmptyFn]

\* TakesTableIds that never takes the entity table's identifiers
TakesTableIdsNever(s, idxlist, entity) == FALSE

\* TakesTableIds on any mismatch of the two row counts
TakesTableIdsOnMismatch(s, idxlist, entity) ==
    /\ s.num_table = 3
    /\ Len(idxlist) # s.table3[entity].n

\* whether the entity table's own identifier column replaces the sorted
\* distinct identifiers: when that table has fewer rows
TakesTableIds(s, idxlist, entity) ==
    /\ s.num_table = 3
    /\ Len(idxlist) # s.table3[entity].n
    /\ Len(idxlist) > s.table3[entity].n

\* the rows of entity
IdList(s, entity) ==
    LET idxlist == Unique(IndTable(s).c[IdCol(entity)])
    IN IF TakesTableIds(s, idxlist, entity)
       THEN s.table3[entity].c[IdCol(entity)]
       ELSE idxlist

\* the join pair of one role
JoinPair(idxlist, idx, qui, person) ==
    LET idxIndi == ArgWhere(qui, person)
    IN [idxIndi |-> idxIndi, idxUnit |-> SearchSortedAll(idxlist, Take(idx, idxIndi))]

EntityEntry(s, entity) ==
    LET idx == IndTable(s).c[IdCol(entity)]
        qui == IndTable(s).c[QuiCol(entity)]
        idxlist == IdList(s, entity)
    IN [nb |-> Len(idxlist),
        person |-> [person \in Enum |-> JoinPair(idxlist, idx, qui, person)],
        ent |-> EmptyFn]

\* index['ind'][entity], kept in the split layout only
IndToEntity(s, entity) == SearchSortedAll(IdList(s, entity), IndTable(s).c[IdCol(entity)])

\* the first loop, over the entities up to and including entities[upto]
LoopIndex(s, entities, upto) ==
    LET done == {entities[k] : k \in 1..upto}
    IN [e \in {"ind"} \cup done |->
          IF e = "ind"
          THEN [IndEntry(s) EXCEPT !.ent =
                   IF s.num_table = 3 THEN [f \in done |-> IndToEntity(s, f)] ELSE EmptyFn]
          ELSE EntityEntry(s, e)]

\* index[entity][super_entity]: the super_entity row of each role-0 member
CrossRows(idx, entity, super_entity) ==
    Take(idx["ind"].ent[super_entity], idx[entity].person[0].idxIndi)

CrossIndex(idx, entities) ==
    LET all == {entities[k] : k \in 1..Len(entities)}
    IN [e \in DOMAIN idx |->
          IF e = "ind" THEN idx[e]
          ELSE [idx[e] EXCEPT !.ent = [f \in all \ {e} |-> CrossRows(idx, e, f)]]]

\* the index and the outcome of gen_index(entities) on storage s
gen_index(s, entities) ==
    LET k == FirstMissing(s, entities)
    IN IF k # 0
       THEN [index |-> LoopIndex(s, entities, k - 1),
             out |-> Err("AttributeError", {MissingAttr(IndTable(s), entities[k])})]
       ELSE [index |-> IF s.num_table = 3
                       THEN CrossIndex(LoopIndex(s, entities, Len(entities)), entities)
                       ELSE LoopIndex(s, entities, Len(entities)),
             out |-> Ok("none", <<>>)]

(***************************************************************************)
(* populate_from_survey_data, for survey data given as a DataFrame         *)
(* (num_table = 1) or as a dictionary of DataFrames (num_table = 3).       *)
(***************************************************************************)
\* a frame with the columns among names it lacks filled with their default,
\* every column among names cast to its type, and (drop) the others dropped
FillFrame(frame, names, drop) ==
    LET kept == IF drop THEN names ELSE names \cup DOMAIN frame.c
    IN Frame(frame.n,
             [name \in kept |->
                IF name \notin names THEN frame.c[name]
                ELSE IF name \in DOMAIN frame.c
                     THEN CastAll(column_by_name[name].dtype, frame.c[name])
                     ELSE Filled(frame.n, Cast(column_by_name[name].dtype,
                                               column_by_name[name].default))])

\* missing_col
MissingCol(nt, fname) ==
    IF nt = 1 THEN ColumnNames \ DOMAIN fname.c
    ELSE UNION {ColumnsOf(ent) \ DOMAIN fname[ent].c : ent \in DOMAIN fname}

\* the storage once the survey data is read and the missing variables are
\* initialised to their default value
ReadSurvey(nt, t, t3, fname) ==
    IF nt = 1
    THEN Storage(nt, FillFrame(fname, ColumnNames, TRUE), t3, fname.n)
    ELSE Storage(nt, t, [ent \in DOMAIN fname |-> FillFrame(fname[ent], ColumnsOf(ent), FALSE)],
                 fname["ind"].n)

\* NeededVariable with the check of qui<E> left out
RECURSIVE NeededIdentifier(_, _)
NeededIdentifier(missing, entities) ==
    IF entities = <<>> THEN ""
    ELSE IF IdCol(Head(entities)) \in missing THEN IdCol(Head(entities))
    ELSE NeededIdentifier(missing, Tail(entities))

\* the first linking variable the survey data lacks, in the order the
\* entities are checked: id<E> before qui<E>
RECURSIVE NeededVariable(_, _)
NeededVariable(missing, entities) ==
    IF entities = <<>> THEN ""
    ELSE IF IdCol(Head(entities)) \in missing THEN IdCol(Head(entities))
    ELSE IF QuiCol(Head(entities)) \in missing THEN QuiCol(Head(entities))
    ELSE NeededVariable(missing, Tail(entities))

(***************************************************************************)
(* get_value.  opt is a list of roles or None; entity is an entity name or *)
(* "None".  The result is Ok("array", a), Ok("dict", role -> array),       *)
(* Ok("scalar", <<v>>) where numpy hands back a 0-d value, Ok("none", _)   *)
(* where the function falls off its end, or Err(exception, names).         *)
(***************************************************************************)
\* Python's None for opt: a value no list of roles equals
None == <<-1>>

\* Gather that fills temp with zeros whatever the column's default
GatherOnZeros(entry, person, var, fill) ==
    IF person \notin DOMAIN entry.person THEN Err("KeyError", {})
    ELSE LET idx == entry.person[person]
         IN IF ~InRows(idx.idxIndi, Len(var)) \/ ~InRows(idx.idxUnit, entry.nb)
            THEN Err("IndexError", {})
            ELSE Ok("array", Scatter(Filled(entry.nb, 0), idx.idxUnit,
                                     Take(var, idx.idxIndi)))

\* temp[idx['idxUnit']] = var[idx['idxIndi']] on temp = nb values of fill
Gather(entry, person, var, fill) ==
    IF person \notin DOMAIN entry.person THEN Err("KeyError", {})
    ELSE LET idx == entry.person[person]
         IN IF ~InRows(idx.idxIndi, Len(var)) \/ ~InRows(idx.idxUnit, entry.nb)
            THEN Err("IndexError", {})
            ELSE Ok("array", Scatter(Filled(entry.nb, fill), idx.idxUnit,
                                     Take(var, idx.idxIndi)))

\* temp[idx['idxIndi']] = var[idx['idxUnit']] on temp, for each person in turn
RECURSIVE Spread(_, _, _, _)
Spread(entry, persons, var, temp) ==
    IF persons = <<>> THEN Ok("array", temp)
    ELSE IF Head(persons) \notin DOMAIN entry.person THEN Err("KeyError", {})
    ELSE LET idx == entry.person[Head(persons)]
         IN IF ~InRows(idx.idxUnit, Len(var)) \/ ~InRows(idx.idxIndi, Len(temp))
            THEN Err("IndexError", {})
            ELSE Spread(entry, Tail(persons), var,
                        Scatter(temp, idx.idxIndi, Take(var, idx.idxUnit)))

\* the value temp starts from in the flat reader: the column's default
FlatFill(col, sum_) == col.default

\* the value temp starts from when a variable of 'ind' is read at a bigger
\* entity in the split reader: zero under a sum, else the column's default
SplitFill(col, sum_) == IF sum_ THEN 0 ELSE col.default

\* the arrays gathered for each person of opt, and what is returned of them
Gathered(entry, opt, var, fill) == [person \in Range(opt) |-> Gather(entry, person, var, fill)]

ReturnGathered(out, opt, sum_, nb) ==
    IF \E person \in DOMAIN out : out[person].kind = "error"
    THEN out[CHOOSE person \in DOMAIN out : out[person].kind = "error"]
    ELSE IF ~sum_
         THEN IF Len(opt) = 1 THEN out[opt[1]]
              ELSE Ok("dict", [person \in DOMAIN out |-> out[person].val])
         ELSE LET persons == SortedSeq(DOMAIN out)
              IN Ok("array", SumArrays([k \in 1..Len(persons) |-> out[persons[k]].val], nb))

_get_value1(s, idx, varname, entity0, opt, sum_) ==
    IF varname \notin ColumnNames THEN Err("AttributeError", {})
    ELSE IF varname \notin DOMAIN s.table.c THEN Err("KeyError", {varname})
    ELSE
    LET col == column_by_name[varname]
        var == CastAll(col.dtype, s.table.c[varname])
        entity == IF entity0 = "None" THEN "ind" ELSE entity0
    IN IF entity = "ind" THEN Ok("array", var)
       ELSE IF entity \notin DOMAIN idx THEN Err("KeyError", {entity})
       ELSE IF opt = None THEN Gather(idx[entity], 0, var, col.default)
       ELSE ReturnGathered(Gathered(idx[entity], opt, var, FlatFill(col, sum_)),
                           opt, sum_, idx[entity].nb)

\* the variables whose name starts with 'id'
IdNames == {IdCol(e) : e \in Composite}

\* the variables propagated to every member
PropagatedNames == {"so", "zone_apl", "loyer", "wprm"}

Case(dent, entity, opt) ==
    LET case == IF entity = "None" \/ entity = dent THEN 1
                ELSE IF entity = "ind" \/ dent = "men" THEN 2
                ELSE IF entity = "men" \/ dent = "ind" THEN 3
                ELSE 0
    IN IF case = 0 /\ opt = None THEN 2 ELSE case

\* case 1: the variable at its own entity level
SameLevel(idx, dent, var) ==
    IF dent \notin DOMAIN idx THEN Err("KeyError", {dent})
    ELSE LET rows == idx[dent].person[0].idxUnit
         IN IF ~InRows(rows, Len(var)) THEN Err("IndexError", {})
            ELSE IF dent # "ind" /\ Len(rows) = 1 THEN Ok("scalar", Take(var, rows))
            ELSE Ok("array", Take(var, rows))

\* case 2 without opt, to an entity that is not 'ind'
ToEntity(idx, varname, dent, entity, var, dflt) ==
    IF dent \notin DOMAIN idx \/ entity \notin DOMAIN idx[dent].ent THEN Err("KeyError", {})
    ELSE LET rows == idx[dent].ent[entity]
             temp == Filled(idx[entity].nb, dflt)
         IN IF ~InRows(rows, Len(temp)) THEN Err("IndexError", {})
            ELSE IF ~CanScatter(temp, rows, var) THEN Err("ValueError", {})
            ELSE IF varname \in PropagatedNames
            THEN IF dent \notin DOMAIN idx[entity].ent THEN Err("KeyError", {})
                 ELSE LET idx_from == idx[entity].ent[dent]
                      IN IF ~InRows(idx_from, Len(var)) THEN Err("IndexError", {})
                         ELSE IF Len(idx_from) = 1 THEN Ok("scalar", Take(var, idx_from))
                         ELSE Ok("array", Take(var, idx_from))
            ELSE Ok("array", Scatter(temp, rows, var))

\* case 2 without opt, to 'ind': temp[head['idxIndi']] = var
ToHeads(idx, dent, var, dflt) ==
    IF dent \notin DOMAIN idx THEN Err("KeyError", {dent})
    ELSE LET head == idx[dent].person[0]
             temp == Filled(idx["ind"].nb, dflt)
         IN IF ~InRows(head.idxIndi, Len(temp)) THEN Err("IndexError", {})
            ELSE IF ~CanScatter(temp, head.idxIndi, var) THEN Err("ValueError", {})
            ELSE Ok("array", Scatter(temp, head.idxIndi, var))

\* tab.groupby(idx_to).aggregate(np.sum) at group t
RECURSIVE Total(_, _)
Total(var, R) ==
    IF R = {} THEN 0
    ELSE LET k == CHOOSE x \in R : TRUE IN var[k] + Total(var, R \ {k})

GroupSum(idx_to, var, t) == Total(var, {k \in 1..Len(idx_to) : idx_to[k] = t})

\* case 3 from 'fam' or 'foy' to 'men'.  What pandas does with a grouping key
\* that is a 0-d value, or whose length is not the column's, is left open.
SumToEntity(idx, dent, entity, var, col, sum_) ==
    IF ~sum_ THEN Err("Exception", {})
    ELSE IF dent \notin DOMAIN idx \/ entity \notin DOMAIN idx[dent].ent THEN Err("KeyError", {})
    ELSE LET idx_to == idx[dent].ent[entity]
             nb == idx[entity].nb
         IN IF Len(var) = 0 THEN Err("IndexError", {})
            ELSE IF Len(idx_to) = 1 \/ Len(idx_to) # Len(var) THEN Ok("undetermined", <<>>)
            ELSE IF ~InRows(idx_to, nb) THEN Err("IndexError", {})
            ELSE Ok("array", [k \in 1..nb |->
                       IF (k - 1) \in Range(idx_to)
                       THEN Cast(col.dtype, GroupSum(idx_to, var, k - 1))
                       ELSE col.default])

_get_value3(s, idx, varname, entity, opt0, sum0) ==
    IF varname \notin ColumnNames THEN Err("AttributeError", {})
    ELSE
    LET col == column_by_name[varname]
        dflt == col.default
        dent == col.entity
        case == Case(dent, entity, opt0)
        opt1 == IF opt0 # None /\ case = 1 THEN None ELSE opt0
        sum1 == IF sum0 /\ case # 3 THEN FALSE ELSE sum0
        sum_ == IF case = 3 /\ dent # "ind" /\ opt1 = None THEN TRUE ELSE sum1
        opt2 == IF case = 3 /\ opt1 = None THEN <<0>> ELSE opt1
        opt == IF varname = "wprm" /\ entity = "ind" THEN [k \in 1..10 |-> k - 1] ELSE opt2
    IN IF dent \notin DOMAIN s.table3 \/ varname \notin DOMAIN s.table3[dent].c
       THEN Err("KeyError", {varname})
       ELSE
       LET var == CastAll(col.dtype, s.table3[dent].c[varname])
       IN IF opt0 # None /\ case = 1 /\ varname \notin IdNames THEN Err("Exception", {varname})
          ELSE IF opt1 # None /\ case = 2 /\ entity # "ind" THEN Err("Exception", {varname, entity})
          ELSE IF case = 1 THEN SameLevel(idx, dent, var)
          ELSE IF case = 2
               THEN IF entity \notin DOMAIN idx THEN Err("KeyError", {entity})
                    ELSE IF opt = None
                         THEN IF entity # "ind"
                              THEN ToEntity(idx, varname, dent, entity, var, dflt)
                              ELSE ToHeads(idx, dent, var, dflt)
                         ELSE IF dent \notin DOMAIN idx THEN Err("KeyError", {dent})
                              ELSE Spread(idx[dent], opt, var, Filled(idx[entity].nb, dflt))
          ELSE IF case = 3
               THEN IF entity \notin DOMAIN idx THEN Err("KeyError", {entity})
                    ELSE IF dent = "ind"
                         THEN ReturnGathered(
                                  Gathered(idx[entity], opt, var, SplitFill(col, sum_)),
                                  opt, sum_, idx[entity].nb)
                         ELSE SumToEntity(idx, dent, entity, var, col, sum_)
          ELSE Ok("none", <<>>)

\* get_value: the flat reader's exceptions are raised again as an Exception
\* that names the variable
get_value(s, idx, varname, entity, opt, sum_) ==
    IF s.num_table = 1
    THEN LET value == _get_value1(s, idx, varname, entity, opt, sum_)
         IN IF value.kind = "error" THEN Err("Exception", {varname}) ELSE value
    ELSE _get_value3(s, idx, varname, entity, opt, sum_)

(***************************************************************************)
(* set_value.  opt is one role or NoRole (Python's None).                  *)
(***************************************************************************)
NoRole == -1

\* WithColumn that leaves the frame as it was
WithColumnLost(frame, name, values) == frame

\* a frame with column name replaced
WithColumn(frame, name, values) == Frame(frame.n, [frame.c EXCEPT ![name] = values])

\* NoColumn with the error printed and not raised again
NoColumnSilent(varname) == Ok("none", <<>>)

\* column_by_name.get(varname) is None: the error is printed and raised again
NoColumn(varname) == Err("Exception", {varname})

\* the storage after set_value and the outcome of the call
set_value(s, idx, varname, value, entity0, opt) ==
    LET entity == IF entity0 = "None" THEN "ind" ELSE entity0
        person == IF opt = NoRole THEN 0 ELSE opt
    IN IF entity \notin DOMAIN idx \/ person \notin DOMAIN idx[entity].person
       THEN [s |-> s, out |-> Err("KeyError", {})]
       ELSE IF varname \notin ColumnNames THEN [s |-> s, out |-> NoColumn(varname)]
       ELSE
       LET rows == idx[entity].person[person]
           dtyp == column_by_name[varname].dtype
       IN IF s.num_table = 1
          THEN IF ~InRows(rows.idxUnit, Len(value)) THEN [s |-> s, out |-> Err("IndexError", {})]
               ELSE IF varname \notin DOMAIN s.table.c \/ ~InRows(rows.idxIndi, s.table.n)
               THEN [s |-> s, out |-> Err("KeyError", {varname})]
               ELSE [s |-> [s EXCEPT !.table =
                              WithColumn(s.table, varname,
                                  Scatter(s.table.c[varname], rows.idxIndi,
                                          CastAll(dtyp, Take(value, rows.idxUnit))))],
                     out |-> Ok("none", <<>>)]
          ELSE LET at == IF entity = "ind" THEN rows.idxIndi ELSE rows.idxUnit
               IN IF \/ entity \notin DOMAIN s.table3
                     \/ varname \notin DOMAIN s.table3[entity].c
                     \/ ~InRows(at, s.table3[entity].n)
                  THEN [s |-> s, out |-> Err("KeyError", {varname})]
                  ELSE IF ~CanScatter(s.table3[entity].c[varname], at, value)
                  THEN [s |-> s, out |-> Err("ValueError", {})]
                  ELSE [s |-> [s EXCEPT !.table3[entity] =
                                 WithColumn(s.table3[entity], varname,
                                     Scatter(s.table3[entity].c[varname], at, value))],
                        out |-> Ok("none", <<>>)]

(***************************************************************************)
(* propagate_to_members and inflate.                                       *)
(***************************************************************************)
\* the loop over the roles of from_ent in the flat layout: the value of the
\* head of each member's unit is written to the members of the role
RECURSIVE PropagateRoles(_, _, _, _, _, _)
PropagateRoles(s, idx, varname, from_ent, value, members) ==
    IF members = <<>> THEN [s |-> s, out |-> Ok("none", <<>>)]
    ELSE IF 0 \notin DOMAIN idx[from_ent].person \/ Head(members) \notin DOMAIN idx[from_ent].person
    THEN [s |-> s, out |-> Err("KeyError", {})]
    ELSE
    LET head == idx[from_ent].person[0].idxIndi
        select_unit == idx[from_ent].person[Head(members)].idxUnit
    IN IF ~InRows(head, Len(value)) \/ ~InRows(select_unit, Len(head))
       THEN [s |-> s, out |-> Err("IndexError", {})]
       ELSE LET value_member == Take(Take(value, head), select_unit)
                done == IF varname = "wprm" THEN [s |-> s, out |-> Ok("none", <<>>)]
                        ELSE set_value(s, idx, varname, value_member, from_ent, Head(members))
            IN IF done.out.kind = "error" THEN done
               ELSE PropagateRoles(done.s, idx, varname, from_ent, value, Tail(members))

\* the storage after propagate_to_members(varname, entity) and its outcome
propagate_to_members(s, idx, varname, entity) ==
    IF varname \notin ColumnNames THEN [s |-> s, out |-> Err("AttributeError", {})]
    ELSE
    LET from_ent == column_by_name[varname].entity
        value == get_value(s, idx, varname, "None", None, FALSE)
    IN IF value.kind = "error" THEN [s |-> s, out |-> value]
       ELSE IF s.num_table = 1
       THEN IF from_ent \notin Composite THEN [s |-> s, out |-> Err("AttributeError", {})]
            ELSE IF from_ent \notin DOMAIN idx THEN [s |-> s, out |-> Err("KeyError", {from_ent})]
            ELSE PropagateRoles(s, idx, varname, from_ent, value.val, SortedSeq(Enum))
       ELSE [s |-> s,
             out |-> _get_value3(s, idx, varname, entity, [k \in 1..10 |-> k - 1], FALSE)]

\* the storage after inflate(varname, inflator) and its outcome
inflate(s, varname, inflator) ==
    IF varname \notin DOMAIN s.table.c THEN [s |-> s, out |-> Err("KeyError", {varname})]
    ELSE [s |-> [s EXCEPT !.table =
                    WithColumn(s.table, varname,
                               [k \in 1..Len(s.table.c[varname]) |->
                                   inflator * s.table.c[varname][k]])],
          out |-> Ok("none", <<>>)]

(***************************************************************************)
(* The state of a DataTable and its operations.                            *)
(***************************************************************************)
Current == Storage(num_table, table, table3, nrows)

NoWrite == [varname |-> "", entity |-> "", opt |-> NoRole, value |-> <<>>, times |-> 0]

\* the record of a set_value that returned: times is 2 when the set_value
\* that returned before it wrote the same (varname, entity, opt)
WrittenBy(varname, entity, opt, value) ==
    [varname |-> varname, entity |-> entity, opt |-> opt, value |-> value,
     times |-> IF written.varname = varname /\ written.entity = entity /\ written.opt = opt
               THEN 2 ELSE 1]

Call(op, varname, entity, opt, sum_) ==
    [op |-> op, varname |-> varname, entity |-> entity, opt |-> opt, sum_ |-> sum_]

\* the linking columns a frame lacks
Lacked(frame) == LinkCols \ DOMAIN frame.c

\* __init__: empty tables and no index
Constructed ==
    /\ num_table \in {1, 3}
    /\ table = EmptyFrame
    /\ table3 = [ent \in {"ind", "foy", "men"} |-> EmptyFrame]
    /\ index = EmptyFn
    /\ nrows = 0
    /\ ret = Call("__init__", "", "", None, FALSE) @@ Ok("none", <<>>)
    /\ build = [op |-> "", lacked |-> {}, out |-> Ok("none", <<>>)]
    /\ written = NoWrite

\* the storage, the index and the outcome of populate_from_survey_data(fname)
populate_from_survey_data(nt, t, t3, idx, fname) ==
    LET s == ReadSurvey(nt, t, t3, fname)
        needed == NeededVariable(MissingCol(nt, fname), ENTITIES_INDEX)
        built == gen_index(s, ENTITIES_INDEX)
    IN [s |-> s,
        index |-> IF needed # "" THEN idx ELSE built.index,
        out |-> IF needed # "" THEN Err("Exception", {needed}) ELSE built.out]

PopulateFromSurveyData(fname) ==
    LET done == populate_from_survey_data(num_table, table, table3, index, fname)
    IN /\ table' = done.s.table
       /\ table3' = done.s.table3
       /\ nrows' = done.s.nrows
       /\ index' = done.index
       /\ ret' = Call("populate_from_survey_data", "", "", None, FALSE) @@ done.out
       /\ build' = [op |-> "populate_from_survey_data",
                    lacked |-> Lacked(IF num_table = 1 THEN fname ELSE fname["ind"]),
                    out |-> done.out]
       /\ written' = NoWrite
       /\ UNCHANGED num_table

\* GenIndex that keeps the entries of an index it finds
GenIndexOnce ==
    LET built == gen_index(Current, ENTITIES_INDEX)
    IN /\ index' = IF index = EmptyFn THEN built.index ELSE index
       /\ ret' = Call("gen_index", "", "", None, FALSE) @@ built.out
       /\ build' = [op |-> "gen_index", lacked |-> Lacked(IndTable(Current)), out |-> built.out]
       /\ UNCHANGED <<num_table, table, table3, nrows, written>>

GenIndex ==
    LET built == gen_index(Current, ENTITIES_INDEX)
    IN /\ index' = built.index
       /\ ret' = Call("gen_index", "", "", None, FALSE) @@ built.out
       /\ build' = [op |-> "gen_index", lacked |-> Lacked(IndTable(Current)), out |-> built.out]
       /\ UNCHANGED <<num_table, table, table3, nrows, written>>

GetValue(varname, entity, opt, sum_) ==
    /\ ret' = Call("get_value", varname, entity, opt, sum_)
              @@ get_value(Current, index, varname, entity, opt, sum_)
    /\ UNCHANGED <<num_table, table, table3, index, nrows, build, written>>

\* SetValue that builds the index again over the storage it has written
SetValueReindexing(varname, value, entity, opt) ==
    LET done == set_value(Current, index, varname, value, entity, opt)
    IN /\ table' = done.s.table
       /\ table3' = done.s.table3
       /\ index' = gen_index(done.s, ENTITIES_INDEX).index
       /\ ret' = Call("set_value", varname, entity, <<opt>>, FALSE) @@ done.out
       /\ written' = IF done.out.kind = "error" THEN written
                     ELSE WrittenBy(varname, entity, opt, value)
       /\ UNCHANGED <<num_table, nrows, build>>

SetValue(varname, value, entity, opt) ==
    LET done == set_value(Current, index, varname, value, entity, opt)
    IN /\ table' = done.s.table
       /\ table3' = done.s.table3
       /\ ret' = Call("set_value", varname, entity, <<opt>>, FALSE) @@ done.out
       /\ written' = IF done.out.kind = "error" THEN written
                     ELSE WrittenBy(varname, entity, opt, value)
       /\ UNCHANGED <<num_table, index, nrows, build>>

PropagateToMembers(varname, entity) ==
    LET done == propagate_to_members(Current, index, varname, entity)
    IN /\ table' = done.s.table
       /\ table3' = done.s.table3
       /\ ret' = Call("propagate_to_members", varname, entity, None, FALSE) @@ done.out
       /\ written' = NoWrite
       /\ UNCHANGED <<num_table, index, nrows, build>>

Inflate(varname, inflator) ==
    LET done == inflate(Current, varname, inflator)
    IN /\ varname \in DOMAIN table.c
          => \A k \in 1..Len(table.c[varname]) : inflator * table.c[varname][k] <= MaxValue
       /\ table' = done.s.table
       /\ table3' = done.s.table3
       /\ ret' = Call("inflate", varname, "", None, FALSE) @@ done.out
       /\ written' = NoWrite
       /\ UNCHANGED <<num_table, index, nrows, build>>

\* a DataTable constructed and loaded with survey data fname
Loaded(nt, fname) ==
    LET done == populate_from_survey_data(nt, EmptyFrame,
                                          [ent \in {"ind", "foy", "men"} |-> EmptyFrame],
                                          EmptyFn, fname)
    IN /\ num_table = nt
       /\ table = done.s.table
       /\ table3 = done.s.table3
       /\ nrows = done.s.nrows
       /\ index = done.index
       /\ ret = Call("populate_from_survey_data", "", "", None, FALSE) @@ done.out
       /\ build = [op |-> "populate_from_survey_data",
                   lacked |-> Lacked(IF nt = 1 THEN fname ELSE fname["ind"]),
                   out |-> done.out]
       /\ written = NoWrite

(***************************************************************************)
(* Survey data.  A population gives each of its n individuals an           *)
(* identifier and a role in every composite entity.  The value of a        *)
(* variable in a row differs from row to row and from variable to variable *)
(* so that a result shows which rows it was made of.                       *)
(***************************************************************************)
Links(n) == [id : [1..n -> 1..MaxId], qui : [1..n -> 0..MaxQui]]

\* every composite entity groups the individuals alike
TiedPop(n, link) == [n |-> n, link |-> [e \in Composite |-> link]]

\* every composite entity groups the individuals in its own way
Pop(n, men, fam, foy) == [n |-> n, link |-> [men |-> men, fam |-> fam, foy |-> foy]]

ColumnBase(name) ==
    CASE name = "sal" -> 10 [] name = "age" -> 11 [] name = "loyer" -> 100
      [] name = "af" -> 300 [] name = "irpp" -> 500 [] OTHER -> 1

\* the value of column name in the row of individual key (or of identifier key)
ValueOf(name, key) == IF name = "inv" THEN key % 2 ELSE ColumnBase(name) * (2 ^ (key - 1))

\* the value of a column of the individual table at individual i
IndValue(p, name, i) ==
    IF \E e \in Composite : name = IdCol(e)
    THEN p.link[CHOOSE e \in Composite : name = IdCol(e)].id[i]
    ELSE IF \E e \in Composite : name = QuiCol(e)
    THEN p.link[CHOOSE e \in Composite : name = QuiCol(e)].qui[i]
    ELSE IF column_by_name[name].entity = "ind" THEN ValueOf(name, i)
    ELSE ValueOf(name, p.link[column_by_name[name].entity].id[i])

\* a flat survey: one row per individual, the values of a composite entity
\* repeated on the rows of its members
FlatSurvey(p, missing) ==
    Frame(p.n, [name \in ColumnNames \ missing |-> [i \in 1..p.n |-> IndValue(p, name, i)]])

\* the table of entity e with one row per identifier of ids
EntityFrame(e, ids) ==
    Frame(Len(ids), [name \in {IdCol(e)} \cup ColumnsOf(e) |->
                        [k \in 1..Len(ids) |->
                            IF name = IdCol(e) THEN ids[k] ELSE ValueOf(name, ids[k])]])

\* a split survey; rows[e] lists the identifiers of the table of e
SplitSurvey(p, missing, rows) ==
    [ent \in {"ind"} \cup Composite |->
        IF ent = "ind"
        THEN Frame(p.n, [name \in ColumnsOf("ind") \ missing |->
                            [i \in 1..p.n |-> IndValue(p, name, i)]])
        ELSE EntityFrame(ent, rows[ent])]

\* the entity tables that agree with the individuals' identifiers
ExactRows(p) == [e \in Composite |-> Unique(p.link[e].id)]

Survey(nt, p, missing) ==
    IF nt = 1 THEN FlatSurvey(p, missing) ELSE SplitSurvey(p, missing, ExactRows(p))

(***************************************************************************)
(* Spec: the life of a DataTable.  Surveys are loaded, some of them        *)
(* lacking a linking column, the index is rebuilt, values are read and     *)
(* written, with known and unknown variable names.                         *)
(***************************************************************************)
\* every group of the link has exactly one member in role 0
OneHead(n, link) ==
    \A g \in Range(link.id) : Cardinality({i \in 1..n : link.id[i] = g /\ link.qui[i] = 0}) = 1

\* populations listed group after group, the groups numbered from 1 on, the
\* first member of a group in role 0 and the others in role 1
LifeLinks ==
    {l \in Links(MaxInd) :
        /\ l.id[1] = 1
        /\ \A i \in 2..MaxInd : l.id[i - 1] <= l.id[i] /\ l.id[i] <= l.id[i - 1] + 1
        /\ \A i \in 1..MaxInd :
              l.qui[i] = IF i = 1 \/ l.id[i - 1] # l.id[i] THEN 0 ELSE 1}

LifePops == {TiedPop(MaxInd, link) : link \in LifeLinks}

LifeMissing == {{}, {"idfam"}, {"quifoy"}}

LifeNames == {"sal", "nope"}

Init == Constructed

Next ==
    \/ \E p \in LifePops, missing \in LifeMissing :
          PopulateFromSurveyData(Survey(num_table, p, missing))
    \/ GenIndex
    \/ \E varname \in LifeNames, entity \in {"None", "men"} :
          GetValue(varname, entity, None, FALSE)
    \/ \E varname \in LifeNames, entity \in {"None", "men"} :
          SetValue(varname, Filled(MaxInd, 1), entity, NoRole)

Spec == Init /\ [][Next]_vars

(***************************************************************************)
(* Error handling.                                                         *)
(***************************************************************************)
BuildOps == {"gen_index", "populate_from_survey_data"}

AccessOps == {"get_value", "set_value"}

\* the composite entities one of whose linking columns is in cols
EntitiesOf(cols) == {e \in Composite : IdCol(e) \in cols \/ QuiCol(e) \in cols}

\* C5: once an index build has failed, every later get_value or set_value
\* that targets a composite entity fails with an error: none succeeds on
\* index entries left by an earlier build or built before the failure.
C5_FailedBuildLeavesNoIndex ==
    (build.out.kind = "error" /\ ret.op \in AccessOps /\ ret.entity \in Composite)
        => ret.kind = "error"

\* C6: an index build over storage that lacks id<E> or qui<E> of a composite
\* entity E ends in an error that names a missing column; it does not
\* complete: populate_from_survey_data leaves the index as it was and
\* gen_index leaves no entry for the entities whose columns are missing.
C6_MissingLinkIsAnError ==
    [][(ret'.op \in BuildOps /\ build'.lacked # {})
          => /\ ret'.kind = "error"
             /\ ret'.names # {}
             /\ ret'.names \subseteq build'.lacked
             /\ ret'.op = "populate_from_survey_data" => index' = index
             /\ ret'.op = "gen_index" => EntitiesOf(build'.lacked) \cap DOMAIN index' = {}]_vars

\* C6 happens: survey data without quifoy was refused, naming quifoy
C6_Witness ==
    /\ ret.op = "populate_from_survey_data"
    /\ build.lacked = {"quifoy"}
    /\ ret.kind = "error"
    /\ ret.names = {"quifoy"}

\* C7: get_value or set_value with a variable name that is not in the
\* column registry raises, and leaves the tables and the index unchanged.
C7_UnknownVariableRaises ==
    [][(ret'.op \in AccessOps /\ ret'.varname \notin ColumnNames)
          => /\ ret'.kind = "error"
             /\ table' = table
             /\ table3' = table3
             /\ index' = index]_vars

\* C7 happens: set_value of an unknown variable on a loaded table, through
\* an index entry that exists, was refused
C7_Witness ==
    /\ ret.op = "set_value"
    /\ ret.varname \notin ColumnNames
    /\ ret.entity = "men"
    /\ "men" \in DOMAIN index
    /\ nrows > 0
    /\ ret.kind = "error"

(***************************************************************************)
(* SpecLeaf: a table loaded with a survey of MaxInd individuals, in either *)
(* layout, read across entity levels: a variable of the individuals at a   *)
(* composite entity, and a variable of a composite entity at 'ind'.        *)
(***************************************************************************)
LeafPops == {TiedPop(MaxInd, link) : link \in Links(MaxInd)}

LeafOpts == {None, <<0>>, <<1>>, <<0, 1>>}

InitLeaf == \E nt \in {1, 3}, p \in LeafPops : Loaded(nt, Survey(nt, p, {}))

ReadUp ==
    \E entity \in {"men", "foy"}, opt \in LeafOpts, sum_ \in BOOLEAN :
        GetValue("age", entity, opt, sum_)

ReadDown == \E opt \in {None, <<0>>, <<0, 1>>} : GetValue("loyer", "ind", opt, FALSE)

NextLeaf == ReadUp \/ ReadDown

SpecLeaf == InitLeaf /\ [][NextLeaf]_vars

\* what the storage says of entity E, read without the index
IdsOf(E) == IndTable(Current).c[IdCol(E)]

QuisOf(E) == IndTable(Current).c[QuiCol(E)]

GroupsOf(E) == Range(IdsOf(E))

\* the row of group g: the number of groups with a smaller identifier
RowOf(E, g) == Cardinality({h \in GroupsOf(E) : h < g}) + 1

\* the individuals of group g that hold role r
MembersOf(E, g, r) == {i \in 1..Len(IdsOf(E)) : IdsOf(E)[i] = g /\ QuisOf(E)[i] = r}

RECURSIVE SumOver(_, _)
SumOver(f, S) == IF S = {} THEN 0 ELSE LET x == CHOOSE x \in S : TRUE IN f[x] + SumOver(f, S \ {x})

\* what the role-r member of group g brings to a sum of X: nothing if absent
Brings(E, g, r, X) ==
    IF MembersOf(E, g, r) = {} THEN 0 ELSE X[CHOOSE i \in MembersOf(E, g, r) : TRUE]

\* a get_value of the individuals' variable "age" at a composite entity,
\* with a list of roles
ReadsUp == ret.op = "get_value" /\ ret.varname = "age" /\ ret.entity \in Composite /\ ret.opt # None

\* C1: get_value(X, entity=E, opt=R, sum_=True) of a variable X of the
\* individuals returns, for every E row g in which each role of R has at most
\* one member, the sum over r in R of the X value of g's role-r member, a
\* role without a member bringing 0 and not the column's default; in both
\* layouts, for a column whose default (7) is not 0.
C1_SumOverRoles ==
    (ReadsUp /\ ret.sum_)
        => /\ ret.kind = "array"
           /\ Len(ret.val) = Cardinality(GroupsOf(ret.entity))
           /\ \A g \in GroupsOf(ret.entity) :
                 (\A r \in Range(ret.opt) : Cardinality(MembersOf(ret.entity, g, r)) <= 1)
                    => ret.val[RowOf(ret.entity, g)] =
                          SumOver([r \in Range(ret.opt) |->
                                      Brings(ret.entity, g, r, IndTable(Current).c["age"])],
                                  Range(ret.opt))

ReadsDown == ret.op = "get_value" /\ ret.varname = "loyer" /\ ret.entity = "ind"

\* the roles a read at 'ind' selects: role 0 when opt is omitted
SelectedRoles == IF ret.opt = None THEN {0} ELSE Range(ret.opt)

\* every household has exactly one member in role 0
OneHeadEach(E) == \A g \in GroupsOf(E) : Cardinality(MembersOf(E, g, 0)) = 1

\* C4: in the split layout, over households that have one role-0 member
\* each, get_value(V, entity='ind') of a variable V of the households
\* returns, for every individual that holds role 0 (or one of the roles of
\* opt), the value V has in the row of the individual's own household, and
\* the column's default for every other individual, whatever the order of
\* the identifiers among the individual rows.
C4_BroadcastDown ==
    (ReadsDown /\ num_table = 3 /\ OneHeadEach("men"))
        => /\ ret.kind = "array"
           /\ Len(ret.val) = nrows
           /\ \A i \in 1..nrows :
                 ret.val[i] = IF QuisOf("men")[i] \in SelectedRoles
                              THEN table3["men"].c["loyer"][RowOf("men", IdsOf("men")[i])]
                              ELSE column_by_name["loyer"].default

(***************************************************************************)
(* SpecCross: a split table over a population whose households, families  *)
(* and tax units group the individuals independently, each group with one  *)
(* member in role 0; the variables of the families and of the tax units    *)
(* are read at the other composite entities.                               *)
(***************************************************************************)
HeadedLinks(n) == {l \in Links(n) : OneHead(n, l)}

CrossPops ==
    {Pop(MaxInd, men, fam, foy) :
        men \in HeadedLinks(MaxInd), fam \in HeadedLinks(MaxInd), foy \in HeadedLinks(MaxInd)}

InitCross == \E p \in CrossPops : Loaded(3, Survey(3, p, {}))

ReadAcross ==
    \E varname \in {"af", "irpp"}, entity \in Composite, opt \in {None, <<0>>}, sum_ \in BOOLEAN :
        GetValue(varname, entity, opt, sum_)

NextCross == ReadAcross

SpecCross == InitCross /\ [][NextCross]_vars

\* a get_value of a variable of the families or of the tax units at another
\* composite entity
ReadsAcross ==
    /\ ret.op = "get_value"
    /\ ret.varname \in {"af", "irpp"}
    /\ ret.entity \in Composite \ {column_by_name[ret.varname].entity}

\* C8: in the split layout, get_value of a variable of the tax units at the
\* families, or of a variable of the families at the tax units, with
\* sum_ = False, raises an error, with opt omitted and with opt given.
C8_SiblingsRaise ==
    (ReadsAcross /\ ret.entity # "men" /\ ~ret.sum_) => ret.kind = "error"

\* C9: in the split layout, get_value with sum_ = True of a variable of
\* entity D (families or tax units) at another composite entity T returns,
\* whenever the model determines what it returns, an array with one entry
\* per row of T, the entry of row t being the sum of the variable over the
\* rows d of D with index[D][T][d] = t.
C9_CrossSum ==
    (ReadsAcross /\ ret.sum_ /\ ret.kind # "undetermined")
        => LET D == column_by_name[ret.varname].entity
               rows == index[D].ent[ret.entity]
               var == table3[D].c[ret.varname]
           IN /\ ret.kind = "array"
              /\ Len(ret.val) = index[ret.entity].nb
              /\ \A t \in 0..(index[ret.entity].nb - 1) :
                    ret.val[t + 1] = SumOver(var, {d \in 1..Len(rows) : rows[d] = t})

(***************************************************************************)
(* SpecRoundTrip: a loaded table whose individual variables are written    *)
(* at 'ind' and read back at 'ind'.                                        *)
(***************************************************************************)
RoundNames == {"sal", "inv"}

RoundValues == [1..MaxInd -> {1, 2}]

\* one household of MaxInd individuals
RoundPops == {p \in LifePops : \A i \in 1..MaxInd : p.link["men"].id[i] = 1}

InitRoundTrip == \E nt \in {1, 3}, p \in RoundPops : Loaded(nt, Survey(nt, p, {}))

WriteInd ==
    \E varname \in RoundNames, value \in RoundValues, entity \in {"None", "ind"} :
        SetValue(varname, value, entity, NoRole)

ReadInd == \E varname \in RoundNames, entity \in {"None", "ind"} : GetValue(varname, entity, None, FALSE)

NextRoundTrip == WriteInd \/ ReadInd

SpecRoundTrip == InitRoundTrip /\ [][NextRoundTrip]_vars

\* a get_value at 'ind' without opt of the variable that the last set_value,
\* at 'ind' without opt, wrote
ReadsBack ==
    /\ ret.op = "get_value"
    /\ ret.entity \in {"None", "ind"}
    /\ ret.opt = None
    /\ written.varname = ret.varname
    /\ written.entity \in {"None", "ind"}
    /\ written.opt = NoRole

\* C3 as stated: the read returns the written array v unchanged, whatever
\* the values of v.
C3_RoundTripAnyArray == ReadsBack => (ret.kind = "array" /\ ret.val = written.value)

\* C3: set_value(name, v, entity='ind') followed by get_value(name) at 'ind'
\* without opt returns v converted to the declared type of the column, in
\* both layouts: v itself when its values are of that type.
C3_RoundTrip ==
    ReadsBack
        => /\ ret.kind = "array"
           /\ ret.val = CastAll(column_by_name[ret.varname].dtype, written.value)
           /\ (\A k \in 1..Len(written.value) :
                  Cast(column_by_name[ret.varname].dtype, written.value[k]) = written.value[k])
                 => ret.val = written.value

\* C3 happens: an array that differs from the loaded column was written and
\* read back
C3_Witness ==
    /\ ReadsBack
    /\ ret.varname = "sal"
    /\ written.value = <<2, 1>>
    /\ ret.val = <<2, 1>>

(***************************************************************************)
(* SpecIndex: gen_index over a loaded table, in the split layout with      *)
(* entity tables whose rows may disagree with the identifiers of the       *)
(* individuals: fewer rows, more rows, rows in another order.              *)
(***************************************************************************)
\* the row lists of an entity table: the identifiers of a subset of
\* 1..(MaxId + 1) in ascending order, or all of them in descending order
RowLists ==
    {SortedSeq(S) : S \in SUBSET (1..(MaxId + 1))}
        \cup {[k \in 1..(MaxId + 1) |-> MaxId + 2 - k]}

IndexSurveys ==
    {FlatSurvey(p, {}) : p \in LeafPops}
        \cup {SplitSurvey(p, {}, [e \in Composite |-> r]) : p \in LeafPops, r \in RowLists}

InitIndex ==
    \E nt \in {1, 3}, fname \in IndexSurveys :
        /\ (nt = 1) = ("n" \in DOMAIN fname)
        /\ Loaded(nt, fname)

NextIndex == GenIndex

SpecIndex == InitIndex /\ [][NextIndex]_vars

\* entity E's rows are the distinct identifiers in ascending order
RowsAscend(E) ==
    /\ index[E].nb = Cardinality(GroupsOf(E))
    /\ \A r \in Enum : \A k \in 1..Len(index[E].person[r].idxIndi) :
          index[E].person[r].idxUnit[k] + 1 = RowOf(E, IdsOf(E)[index[E].person[r].idxIndi[k] + 1])

\* C10 as stated: after gen_index, in both layouts and whatever the row count
\* of table3[E], index[E]['nb'] is the number of distinct id<E> among the
\* individuals and row k of E is the k-th smallest distinct identifier.
C10_RowsAscendAlways ==
    (build.op = "gen_index" /\ build.out.kind # "error") => \A E \in Composite : RowsAscend(E)

\* C10: after gen_index, index[E]['nb'] is the number of distinct id<E>
\* among the individuals and row k of E is the k-th smallest distinct
\* identifier, in the flat layout, and in the split layout when table3[E]
\* has at least as many rows as there are distinct identifiers.
C10_RowsAscend ==
    (build.op = "gen_index" /\ build.out.kind # "error")
        => \A E \in Composite :
              (num_table = 1 \/ table3[E].n >= Cardinality(GroupsOf(E))) => RowsAscend(E)

\* C10 happens: the index was built over a split table whose household
\* table has more rows than the individuals have households, the
\* identifiers not ascending among the individuals
C10_Witness ==
    /\ build.op = "gen_index" /\ build.out.kind # "error"
    /\ num_table = 3
    /\ table3["men"].n > Cardinality(GroupsOf("men"))
    /\ Cardinality(GroupsOf("men")) = 2
    /\ IdsOf("men")[1] > IdsOf("men")[2]
    /\ index["men"].nb = 2

\* gen_index has returned without raising
Indexed == build.op = "gen_index" /\ build.out.kind # "error"

Min(a, b) == IF a <= b THEN a ELSE b

\* C11: in the split layout, over entity tables that carry their id<E>
\* column, when the number of distinct id<E> among the individuals differs
\* from the number of rows of table3[E], gen_index returns without raising
\* and nb_E is the smaller of the two numbers.
C11_SmallerRowList ==
    (ret.op = "gen_index" /\ num_table = 3)
        => /\ ret.kind # "error"
           /\ \A E \in Composite :
                 table3[E].n # Cardinality(GroupsOf(E))
                    => index[E].nb = Min(Cardinality(GroupsOf(E)), table3[E].n)

\* C11 happens: the household table has one row and the individuals have two
\* households
C11_Witness ==
    /\ Indexed /\ num_table = 3
    /\ table3["men"].n = 1
    /\ Cardinality(GroupsOf("men")) = 2
    /\ index["men"].nb = 1

\* C12: after gen_index in the split layout, for every individual i and
\* composite entity E, index['ind'][E][i] lies in 0..nb_E-1 and the row list
\* of E holds id<E>[i] at that position, also when the row list is the
\* identifier column of a table3[E] with fewer rows.
C12_IndividualsPointAtTheirRow ==
    (Indexed /\ num_table = 3)
        => \A E \in Composite : \A i \in 1..nrows :
              LET at == index["ind"].ent[E][i]
              IN /\ at >= 0 /\ at < index[E].nb
                 /\ IdList(Current, E)[at + 1] = IdsOf(E)[i]

\* the join pair of role r in E is well formed
JoinPairOk(E, r) ==
    LET pair == index[E].person[r]
    IN /\ Len(pair.idxIndi) = Len(pair.idxUnit)
       /\ \A j, k \in 1..Len(pair.idxIndi) : j < k => pair.idxIndi[j] < pair.idxIndi[k]
       /\ Range(pair.idxIndi) = {i - 1 : i \in {i \in 1..nrows : QuisOf(E)[i] = r}}
       /\ \A k \in 1..Len(pair.idxIndi) :
             /\ pair.idxUnit[k] >= 0 /\ pair.idxUnit[k] < index[E].nb
             /\ IdList(Current, E)[pair.idxUnit[k] + 1] = IdsOf(E)[pair.idxIndi[k] + 1]

\* C13: after gen_index, for every composite entity E and every role r of
\* the enumeration, idxIndi and idxUnit have the same length, idxIndi lists
\* in increasing order exactly the individual rows whose qui<E> is r, and
\* idxUnit[k] is, within 0..nb_E-1, the E row that holds the identifier of
\* individual idxIndi[k].
C13_JoinPairs == Indexed => \A E \in Composite : \A r \in Enum : JoinPairOk(E, r)

\* C14: after an index build in the split layout, over groups that have one
\* role-0 member each and entity tables that agree with the individuals, for
\* distinct composite entities E and F the table index[E][F] has nb_E
\* entries, and its entry for the row of group g of E is the F row of the
\* role-0 member of g, whatever the order of the identifiers among the
\* individual rows.
C14_CrossTable ==
    (num_table = 3 /\ build.op \in BuildOps /\ build.out.kind # "error")
        => \A E \in Composite : \A F \in Composite \ {E} :
              /\ Len(index[E].ent[F]) = index[E].nb
              /\ \A g \in GroupsOf(E) : \A i \in MembersOf(E, g, 0) :
                    index[E].ent[F][RowOf(E, g)] + 1 = RowOf(F, IdsOf(F)[i])

(***************************************************************************)
(* SpecFrame: a loaded table on which values are read, written (a linking  *)
(* column among them), propagated to the members and inflated.             *)
(***************************************************************************)
InitFrame == \E nt \in {1, 3}, p \in LeafPops : Loaded(nt, Survey(nt, p, {}))

ReadFrame == GetValue("sal", "men", None, FALSE)

WriteFrame == \E varname \in {"idmen", "sal"} : SetValue(varname, Filled(MaxInd, 1), "None", NoRole)

PropagateFrame == PropagateToMembers("loyer", "ind")

InflateFrame == Inflate("sal", 2)

NextFrame == ReadFrame \/ WriteFrame \/ PropagateFrame \/ InflateFrame

SpecFrame == InitFrame /\ [][NextFrame]_vars

ValueOps == {"get_value", "set_value", "propagate_to_members", "inflate"}

\* C15: once the index is built, a get_value, set_value,
\* propagate_to_members or inflate call changes no index array and no
\* entity count nb_E.
C15_IndexKept == [][ret'.op \in ValueOps => index' = index]_vars

\* C15 happens: the households' identifiers were overwritten, so that the
\* individuals now form one household, and the index still counts two
C15_Witness ==
    /\ ret.op = "set_value" /\ ret.varname = "idmen" /\ ret.kind # "error"
    /\ Cardinality(GroupsOf("men")) = 1
    /\ index["men"].nb = 2

(***************************************************************************)
(* SpecWrite: a loaded table whose units have one head each, in any order  *)
(* of identifiers.  The caller writes a variable under one selection       *)
(* (entity, role), writes that selection again, and reads it.              *)
(***************************************************************************)
WriteNames == {"sal", "loyer"}

WriteValues == {[k \in 1..n |-> b + k] : n \in 1..MaxInd, b \in {20, 40}}

WriteRoles == {NoRole} \cup (0..MaxQui)

WritePops == {TiedPop(MaxInd, link) : link \in HeadedLinks(MaxInd)}

InitWrite == \E nt \in {1, 3}, p \in WritePops : Loaded(nt, Survey(nt, p, {}))

WriteFirst ==
    /\ written = NoWrite
    /\ \E varname \in WriteNames, value \in WriteValues, entity \in {"None", "men"}, opt \in WriteRoles :
           SetValue(varname, value, entity, opt)

\* WriteAgain that returns and keeps what the first write stored
WriteAgainDropped ==
    /\ written # NoWrite
    /\ \E value \in WriteValues :
           /\ set_value(Current, index, written.varname, value, written.entity, written.opt).out.kind # "error"
           /\ ret' = Call("set_value", written.varname, written.entity, <<written.opt>>, FALSE)
                     @@ Ok("none", <<>>)
           /\ written' = WrittenBy(written.varname, written.entity, written.opt, value)
    /\ UNCHANGED <<num_table, table, table3, index, nrows, build>>

WriteAgain ==
    /\ written # NoWrite
    /\ \E value \in WriteValues : SetValue(written.varname, value, written.entity, written.opt)

ReadWritten ==
    /\ written # NoWrite
    /\ GetValue(written.varname, written.entity,
                IF written.opt = NoRole THEN None ELSE <<written.opt>>, FALSE)

NextWrite == WriteFirst \/ WriteAgain \/ ReadWritten

SpecWrite == InitWrite /\ [][NextWrite]_vars

\* the entity and the role a set_value call selects
EntityGiven(entity) == IF entity = "None" THEN "ind" ELSE entity

RoleGiven(opt) == IF opt = NoRole THEN 0 ELSE opt

\* individual i (from 1) holds role r in entity E; it is its own unit in 'ind'
HoldsRole(E, r, i) == IF E = "ind" THEN r = 0 ELSE QuisOf(E)[i] = r

\* the row (from 1) of the unit of individual i in entity E
UnitRowOf(E, i) == IF E = "ind" THEN i ELSE RowOf(E, IdsOf(E)[i])

\* the columns of frame g are those of frame f, all equal but column name
SameBut(f, g, name) ==
    /\ g.n = f.n
    /\ DOMAIN g.c = DOMAIN f.c
    /\ \A c \in DOMAIN f.c \ {name} : g.c[c] = f.c[c]

\* the value that position k of the selection receives of the array v
Given(v, k) == IF Len(v) = 1 THEN v[1] ELSE v[k]

\* a set_value(name, v, E, r) that returned, seen across its step
WroteSelection(name, v, E, r) ==
    IF num_table = 1
    THEN /\ table3' = table3
         /\ SameBut(table, table', name)
         /\ \A i \in 1..nrows :
                table'.c[name][i] = IF HoldsRole(E, r, i)
                                    THEN Cast(column_by_name[name].dtype, v[UnitRowOf(E, i)])
                                    ELSE table.c[name][i]
    ELSE LET idx == index[E].person[r]
             at == IF E = "ind" THEN idx.idxIndi ELSE idx.idxUnit
         IN /\ table' = table
            /\ \A e \in DOMAIN table3 \ {E} : table3'[e] = table3[e]
            /\ SameBut(table3[E], table3'[E], name)
            /\ \A j \in 1..table3[E].n :
                   IF \E k \in 1..Len(at) : at[k] = j - 1
                   THEN \E k \in 1..Len(at) : at[k] = j - 1 /\ table3'[E].c[name][j] = Given(v, k)
                   ELSE table3'[E].c[name][j] = table3[E].c[name][j]

\* C16: a set_value(name, values, entity, opt=r) that returns changes only
\* column name, and only at the rows the index selects for (entity, r): in
\* the flat layout each individual holding role r in the entity receives
\* values[the row of its unit], cast to the column's type; every other row
\* of the column and every other column and table stay as they were.
C16_WritesOnlySelection ==
    [][(ret'.op = "set_value" /\ ret'.kind # "error")
         => WroteSelection(ret'.varname, written'.value,
                           EntityGiven(ret'.entity), RoleGiven(ret'.opt[1]))]_vars

\* C16 happens: in the flat layout the household's second member received
\* the value of its household's row, and the head kept what it had
C16_Witness ==
    /\ num_table = 1
    /\ ret.op = "set_value" /\ ret.kind # "error"
    /\ ret.varname = "sal" /\ ret.entity = "men" /\ ret.opt = <<1>>
    /\ \E i, j \in 1..nrows :
          /\ QuisOf("men")[i] = 1 /\ table.c["sal"][i] = written.value[UnitRowOf("men", i)]
          /\ QuisOf("men")[j] = 0 /\ table.c["sal"][j] = ValueOf("sal", j)

\* row j (from 1) of the entity's storage is in the selection (E, r), and
\* position k of the selection is that row
SelectedAt(E, r, j, k) ==
    IF num_table = 1
    THEN k = j /\ HoldsRole(E, r, j)
    ELSE LET idx == index[E].person[r]
             at == IF E = "ind" THEN idx.idxIndi ELSE idx.idxUnit
         IN k \in 1..Len(at) /\ at[k] = j - 1

\* the stored value at row j of column name of the entity's storage
StoredAt(s, name, E, j) == IF s.num_table = 1 THEN s.table.c[name][j] ELSE s.table3[E].c[name][j]

\* the value the array v holds for position k of the selection: in the flat
\* layout the value of the unit of individual k
ValueFor(v, E, k) == IF num_table = 1 THEN v[UnitRowOf(E, k)] ELSE Given(v, k)

\* a second set_value(name, v2, E, r) on the selection of the one before
\* has returned: every stored row of the selection holds the value v2 has
\* for it (for one of its positions, when several members select the row)
HoldsLast(name, v2, E, r) ==
    LET after == Storage(num_table, table', table3', nrows)
    IN \A j \in 1..MaxInd :
           (\E k \in 1..MaxInd : SelectedAt(E, r, j, k))
               => \E k \in 1..MaxInd :
                      SelectedAt(E, r, j, k) /\ StoredAt(after, name, E, j) = ValueFor(v2, E, k)

\* a get_value on the selection written twice returns v2's values: one
\* value per individual, per unit holding the role (flat layout), or per row
\* of the selection (split layout); a selection of one row may be returned
\* as a scalar
ReturnsLast(out, v2, E, r) ==
    /\ out.kind \in {"array", "scalar"}
    /\ IF num_table = 1
       THEN \A i \in 1..nrows :
                HoldsRole(E, r, i) => out.val[UnitRowOf(E, i)] = v2[UnitRowOf(E, i)]
       ELSE \A j \in 1..MaxInd, k \in 1..MaxInd :
                SelectedAt(E, r, j, k) => out.val[k] = Given(v2, k)

\* get_value refuses the roles of a variable read at its own entity in the
\* split layout
RolesRefused(name, entity, opt) ==
    /\ num_table = 3
    /\ opt # NoRole
    /\ column_by_name[name].entity = EntityGiven(entity)

SecondWrite == ret'.op = "set_value" /\ ret'.kind # "error" /\ written'.times = 2

ReadOfSecond == ret'.op = "get_value" /\ written.times = 2

ReadNames == {"sal", "loyer", "af"}

ReadEntities == {"None", "ind", "men", "fam"}

InitRead == \E nt \in {1, 3}, p \in CrossPops : Loaded(nt, Survey(nt, p, {}))

ReadAny ==
    \E varname \in ReadNames, entity \in ReadEntities, opt \in {None, <<0>>}, sum_ \in BOOLEAN :
        GetValue(varname, entity, opt, sum_)

NextRead == ReadAny

SpecRead == InitRead /\ [][NextRead]_vars

\* what a call returned or raised
Outcome(out) == [kind |-> out.kind, val |-> out.val, names |-> out.names]

\* the call that returned, made again with role 0 given
WithRoleZero == get_value(Current, index, ret.varname, ret.entity, <<0>>, ret.sum_)

\* C18: a get_value with opt omitted returns what the same call with
\* opt=[0] and the same sum_ returns, in both layouts, for every variable
\* and target entity for which the call with opt=[0] returns.
C18_DefaultRole ==
    (ret.op = "get_value" /\ ret.opt = None /\ WithRoleZero.kind # "error")
        => Outcome(ret) = Outcome(WithRoleZero)

\* the entity that owns a variable
OwnerOf(name) == column_by_name[name].entity

\* the values of a variable in its owner's native row order, one per unit:
\* the owner's column in the split layout; in the flat layout, for each unit
\* in the order of the identifiers, the value its members hold
OwnValues(name) ==
    LET O == OwnerOf(name)
    IN IF num_table = 3 THEN table3[O].c[name]
       ELSE IF O = "ind" THEN table.c[name]
       ELSE [u \in 1..Cardinality(GroupsOf(O)) |->
                table.c[name][CHOOSE i \in 1..nrows : UnitRowOf(O, i) = u]]

ReadsOwnLevel ==
    /\ ret.op = "get_value"
    /\ ret.varname \in ColumnNames
    /\ ret.entity \in {"None", OwnerOf(ret.varname)}
    /\ ret.opt = None

\* C19: in the split layout, for a variable of entity O, get_value(name,
\* entity=O) and get_value(name), with opt omitted, return the values of O
\* in native row order, nb_O of them.
C19_SameLevel ==
    (num_table = 3 /\ ReadsOwnLevel) => (ret.kind \in {"array", "scalar"} /\ ret.val = OwnValues(ret.varname))

\* every unit of E lies within one household
WithinHouseholds(E) ==
    \A i, k \in 1..nrows : IdsOf(E)[i] = IdsOf(E)[k] => IdsOf("men")[i] = IdsOf("men")[k]

\* C20: in the split layout, when every family lies within one household,
\* get_value('loyer', entity='fam') with no roles returns one value per
\* family row, namely the rent of the household that contains the family,
\* whatever the order of the identifiers among the individual rows.
C20_BroadcastPolicy ==
    (/\ num_table = 3
     /\ ret.op = "get_value" /\ ret.varname = "loyer" /\ ret.entity = "fam" /\ ret.opt = None
     /\ WithinHouseholds("fam"))
        => /\ ret.kind \in {"array", "scalar"}
           /\ Len(ret.val) = Cardinality(GroupsOf("fam"))
           /\ \A i \in 1..nrows :
                 ret.val[UnitRowOf("fam", i)] = table3["men"].c["loyer"][UnitRowOf("men", i)]

(***************************************************************************)
(* Roles without validation (SpecLeaf): groups with no role-0 member and   *)
(* groups with several.                                                    *)
(***************************************************************************)
\* the number of rows of the entity a read targets
TargetSize(entity) ==
    IF EntityGiven(entity) = "ind" THEN nrows ELSE Cardinality(GroupsOf(EntityGiven(entity)))

\* C21: for any assignment of roles to the individuals, a get_value that
\* requests role 0, explicitly or by default, returns an array of the
\* target's size, never an error, and at a composite target the rows of
\* the groups that have no role-0 member hold the column's default; in both
\* layouts.
C21_HeadsNotRequired ==
    (ret.op = "get_value" /\ ret.opt \in {None, <<0>>} /\ ~ret.sum_)
        => /\ ret.kind = "array"
           /\ Len(ret.val) = TargetSize(ret.entity)
           /\ \A E \in Composite : \A g \in GroupsOf(E) :
                 (ret.entity = E /\ MembersOf(E, g, 0) = {})
                     => ret.val[RowOf(E, g)] = column_by_name[ret.varname].default

(***************************************************************************)
(* SpecRebuild: a loaded table whose household identifiers are rewritten,  *)
(* which leaves the index behind the storage, and whose index is built     *)
(* again at any time.                                                      *)
(***************************************************************************)
InitRebuild == \E nt \in {1, 3}, p \in LeafPops : Loaded(nt, Survey(nt, p, {}))

Relink == \E g \in 1..MaxId : SetValue("idmen", Filled(MaxInd, g), "None", NoRole)

Rebuild == GenIndex

NextRebuild == Relink \/ Rebuild

SpecRebuild == InitRebuild /\ [][NextRebuild]_vars

C24_IndexFollowsStorage ==
    (/\ build.op = "populate_from_survey_data"
     /\ ret.op \in AccessOps
     /\ index # EmptyFn)
        => index = gen_index(Current, ENTITIES_INDEX).index

(***************************************************************************)
(* SurveySimulation.compute (simulations.py).  A simulation is its         *)
(* configuration (subset, chunks_count, the survey) and its input_table,   *)
(* None (has_input FALSE) or a DataTable: storage and index.  What is      *)
(* recorded of _compute is the input_table it ran on.                      *)
(***************************************************************************)
\* _survey_subset: the rows of the table whose idmen is in subset
_survey_subset(frame, subset) ==
    IF subset = None THEN [kind |-> "frame", frame |-> frame]
    ELSE IF "idmen" \notin DOMAIN frame.c THEN [kind |-> "error", frame |-> frame]
    ELSE LET rows == SortedSeq({i \in 0..(frame.n - 1) : frame.c["idmen"][i + 1] \in Range(subset)})
         IN [kind |-> "frame",
             frame |-> Frame(Len(rows), [name \in DOMAIN frame.c |-> Take(frame.c[name], rows)])]

\* the survey data as populate_from_survey_data keeps it under self.subset
SubsetSurvey(nt, fname, subset) ==
    IF nt = 1 THEN _survey_subset(fname, subset)
    ELSE LET each == [ent \in DOMAIN fname |-> _survey_subset(fname[ent], subset)]
         IN IF \E ent \in DOMAIN each : each[ent].kind = "error"
            THEN [kind |-> "error", frame |-> fname]
            ELSE [kind |-> "frame", frame |-> [ent \in DOMAIN each |-> each[ent].frame]]

\* Series.unique(): the distinct values in the order they first appear
PandasUnique(a) ==
    Take(a, SortedSeq({i \in 0..(Len(a) - 1) : \A j \in 1..i : a[j] # a[i + 1]}))

\* list_men[start:end]
Slice(a, start, end) ==
    LET lo == IF start > Len(a) THEN Len(a) ELSE start
        hi == IF end > Len(a) THEN Len(a) ELSE end
    IN [k \in 1..(hi - lo) |-> a[lo + k]]

\* compute, lines 643-649: the input_table of a simulation once it is
\* there: the one it has, or else the survey loaded under its subset
InputTable(sim) ==
    IF sim.has_input THEN [s |-> sim.input, index |-> sim.index, out |-> Ok("none", <<>>)]
    ELSE LET data == SubsetSurvey(sim.num_table, Survey(sim.num_table, sim.survey, {}), sim.subset)
         IN IF data.kind = "error"
            THEN [s |-> sim.input, index |-> sim.index, out |-> Err("KeyError", {"idmen"})]
            ELSE populate_from_survey_data(sim.num_table, sim.input.table, sim.input.table3,
                                           sim.index, data.frame)

\* the simulation whose DataTable the state holds
Simulation(has_input, survey, chunks_count) ==
    [has_input |-> has_input, input |-> Current, index |-> index, num_table |-> num_table,
     survey |-> survey, subset |-> None, chunks_count |-> chunks_count]

\* the sub-simulation of a chunk: a copy of the simulation's attributes,
\* with its own subset and chunks_count = 1
SubSimulation(sim, subset) == [sim EXCEPT !.subset = subset, !.chunks_count = 1]

\* compute() up to the loop over the chunks: the input_table is loaded if
\* there is none, and with chunks_count = 1 _compute runs on it
ComputeBegin(survey, chunks_count) ==
    /\ ret.op = "__init__"
    /\ LET sim == Simulation(FALSE, survey, chunks_count)
           loaded == InputTable(sim)
           list_men == PandasUnique(IndTable(loaded.s).c["idmen"])
       IN /\ table' = loaded.s.table
          /\ table3' = loaded.s.table3
          /\ nrows' = loaded.s.nrows
          /\ index' = loaded.index
          /\ build' = [op |-> "populate_from_survey_data", lacked |-> {}, out |-> loaded.out]
          /\ ret' = [op |-> "compute", kind |-> "none",
                     survey |-> survey, chunks_count |-> chunks_count,
                     list_men |-> list_men,
                     chunk_length |-> (Len(list_men) \div chunks_count) + 1,
                     chunk_index |-> 0,
                     subsets |-> <<>>,
                     computed |-> chunks_count = 1,
                     input |-> loaded.s, index |-> loaded.index]
    /\ written' = NoWrite
    /\ UNCHANGED num_table

\* one turn of the loop over the chunks: the sub-simulation's compute()
ComputeChunk ==
    /\ ret.op = "compute"
    /\ ret.chunks_count > 1
    /\ ret.chunk_index < ret.chunks_count
    /\ LET start == ret.chunk_index * ret.chunk_length
           end == (ret.chunk_index + 1) * ret.chunk_length
           subset == Slice(ret.list_men, start, end)
           subsimu == SubSimulation(Simulation(TRUE, ret.survey, ret.chunks_count), subset)
           sub == InputTable(subsimu)
       IN ret' = [ret EXCEPT !.chunk_index = @ + 1,
                             !.subsets = Append(@, subset),
                             !.computed = TRUE,
                             !.kind = sub.out.kind,
                             !.input = sub.s,
                             !.index = sub.index]
    /\ UNCHANGED <<num_table, table, table3, index, nrows, build, written>>

(***************************************************************************)
(* SpecChunks: a survey simulation is configured and computed.             *)
(***************************************************************************)
InitChunks == Constructed

NextChunks ==
    \/ \E p \in LeafPops, c \in 1..MaxChunks : ComputeBegin(p, c)
    \/ ComputeChunk

SpecChunks == InitChunks /\ [][NextChunks]_vars

\* the households of the individuals of a DataTable
HouseholdsIn(s) == Range(IndTable(s).c["idmen"])

\* C23: with chunks_count > 1, the sub-simulation of each chunk computes on
\* a DataTable of its own that holds only the individuals of the households
\* of the chunk's slice of the identifier list, never on the full input
\* table when the slice leaves households out; the slices are pairwise
\* disjoint and together cover every household.
C23_ChunksComputeTheirSlice ==
    (ret.op = "compute" /\ ret.chunks_count > 1 /\ ret.chunk_index > 0)
        => /\ HouseholdsIn(ret.input) \subseteq Range(ret.subsets[ret.chunk_index])
           /\ \A j, k \in 1..Len(ret.subsets) :
                 j # k => Range(ret.subsets[j]) \cap Range(ret.subsets[k]) = {}
           /\ ret.chunk_index = ret.chunks_count
                 => UNION {Range(ret.subsets[k]) : k \in 1..Len(ret.subsets)} = HouseholdsIn(Current)

(***************************************************************************)
(* The two layouts side by side (SpecRead).                                *)
(***************************************************************************)
\* the population the table holds
PopOf == [n |-> nrows, link |-> [e \in Composite |-> [id |-> IdsOf(e), qui |-> QuisOf(e)]]]

\* the table of the other layout loaded with the same population and values
Twin ==
    LET nt == IF num_table = 1 THEN 3 ELSE 1
    IN populate_from_survey_data(nt, EmptyFrame, [ent \in {"ind", "foy", "men"} |-> EmptyFrame],
                                 EmptyFn, Survey(nt, PopOf, {}))

\* the call that returned, made on the table of the other layout
InTwin == get_value(Twin.s, Twin.index, ret.varname, ret.entity, ret.opt, ret.sum_)

\* C25: a flat table and a split table that hold the same population and
\* values return equal results to get_value for the same variable, target
\* entity, opt and sum_, where the call returns in both.
C25_LayoutsAgree ==
    (ret.op = "get_value" /\ ret.kind # "error" /\ InTwin.kind # "error")
        => Outcome(ret) = Outcome(InTwin)

(***************************************************************************)
(* Sums over every role (SpecLeaf).                                        *)
(***************************************************************************)
\* the individuals of group g of entity E, whatever role they hold
AllMembersOf(E, g) == {i \in 1..nrows : IdsOf(E)[i] = g}

\* opt lists several roles, every role an individual holds in E among them
CoversRoles(E, opt) == Len(opt) > 1 /\ \A i \in 1..nrows : QuisOf(E)[i] \in Range(opt)

\* C26: in the split layout, where the sum starts from zeros,
\* get_value(X, entity=E, opt=every role, sum_=True) of a variable X of the
\* individuals holds at each E row the sum of X over all the individuals of
\* the group, whatever roles they hold, so that the result and X have the
\* same total.
C26_SumConserved ==
    (num_table = 3 /\ ReadsUp /\ ret.sum_ /\ CoversRoles(ret.entity, ret.opt))
        => /\ ret.kind = "array"
           /\ \A g \in GroupsOf(ret.entity) :
                 ret.val[RowOf(ret.entity, g)] =
                     SumOver(IndTable(Current).c["age"], AllMembersOf(ret.entity, g))
           /\ SumOver(ret.val, DOMAIN ret.val) = SumOver(IndTable(Current).c["age"], 1..nrows)

(***************************************************************************)
(* SpecPropagate: a loaded table of MaxInd + 1 individuals, so that a      *)
(* household may have a member besides its head while another has its      *)
(* head only.  The rents are written on the heads and propagated to the    *)
(* members.                                                                *)
(***************************************************************************)
PropagatePops == {TiedPop(MaxInd + 1, link) : link \in HeadedLinks(MaxInd + 1)}

RentValues == {[k \in 1..MaxId |-> b + k] : b \in {20, 40}}

InitPropagate == \E nt \in {1, 3}, p \in PropagatePops : Loaded(nt, Survey(nt, p, {}))

WriteRent == \E value \in RentValues : SetValue("loyer", value, "men", NoRole)

PropagateRent == PropagateToMembers("loyer", "ind")

NextPropagate == WriteRent \/ PropagateRent

SpecPropagate == InitPropagate /\ [][NextPropagate]_vars

\* C27: in the flat layout, where every group has one role-0 member,
\* propagate_to_members(varname, entity) of a variable of composite entity
\* E completes without error and leaves every individual with the value
\* the role-0 member of its own group had before the call, whatever the
\* sizes of the groups and the order of the identifiers.
C27_MembersFollowHead ==
    [][(num_table = 1 /\ ret'.op = "propagate_to_members")
         => /\ ret'.kind # "error"
            /\ \A i \in 1..nrows :
                  \A h \in MembersOf(OwnerOf(ret'.varname), IdsOf(OwnerOf(ret'.varname))[i], 0) :
                      table'.c[ret'.varname][i] = table.c[ret'.varname][h]]_vars

(***************************************************************************)
(* load_data_from_test_case.  The test case is the scenario object the     *)
(* caller passes: nmen, maxrev, x_axis, same_rev_couple, and the attribute *)
(* dummy_x_axis, present or not.  populate_datatable is the scenario's own *)
(* method: it returns or raises.                                           *)
(***************************************************************************)
TestCases ==
    [nmen : 1..MaxMen, maxrev : {0, MaxValue}, x_axis : {"None", "sal"},
     same_rev_couple : BOOLEAN, dummy_x_axis : {FALSE}]

\* the test case after load_data_from_test_case, and the outcome
load_data_from_test_case(test_case, raises) ==
    IF test_case.nmen = 1
    THEN LET during == [test_case EXCEPT !.dummy_x_axis = TRUE, !.nmen = 2]
         IN IF raises THEN [test_case |-> during, out |-> Err("Exception", {})]
            ELSE [test_case |-> [during EXCEPT !.dummy_x_axis = FALSE, !.nmen = 1],
                  out |-> Ok("none", <<>>)]
    ELSE [test_case |-> test_case,
          out |-> IF raises THEN Err("Exception", {}) ELSE Ok("none", <<>>)]

LoadDataFromTestCase(test_case, raises) ==
    LET done == load_data_from_test_case(test_case, raises)
    IN /\ ret' = [op |-> "load_data_from_test_case", entry |-> test_case,
                  test_case |-> done.test_case] @@ done.out
       /\ UNCHANGED <<num_table, table, table3, index, nrows, build, written>>

(***************************************************************************)
(* SpecTestCase: a DataTable loaded from test cases, fresh ones or the one *)
(* the call before left.                                                   *)
(***************************************************************************)
InitTestCase == Constructed

LoadFresh == \E test_case \in TestCases, raises \in BOOLEAN : LoadDataFromTestCase(test_case, raises)

LoadAgain ==
    /\ ret.op = "load_data_from_test_case"
    /\ \E raises \in BOOLEAN : LoadDataFromTestCase(ret.test_case, raises)

NextTestCase == LoadFresh \/ LoadAgain

SpecTestCase == InitTestCase /\ [][NextTestCase]_vars

\* C28: load_data_from_test_case leaves the test case as it found it,
\* whether populate_datatable returned or raised: entered with nmen = 1, it
\* leaves nmen = 1 and no dummy_x_axis attribute; entered with another
\* nmen, it touches neither.
C28_TestCaseRestored ==
    ret.op = "load_data_from_test_case"
        => IF ret.entry.nmen = 1
           THEN ret.test_case.nmen = 1 /\ ~ret.test_case.dummy_x_axis
           ELSE /\ ret.test_case.nmen = ret.entry.nmen
                /\ ret.test_case.dummy_x_axis = ret.entry.dummy_x_axis

(***************************************************************************)
(* populate_from_survey_data from an .h5 store.  A store holds one table   *)
(* per year under the key /survey_<year> (flat) or one per year and entity *)
(* under /survey_<year>/<entity> (split).  Keys are sequences of           *)
(* characters; the years are read back from the keys.                      *)
(***************************************************************************)
Years == {2000 + k : k \in 1..MaxYear}

Digit == <<"0", "1", "2", "3", "4", "5", "6", "7", "8", "9">>

DigitValue == [c \in Range(Digit) |-> (CHOOSE d \in 1..10 : Digit[d] = c) - 1]

\* str(n) of a positive integer
RECURSIVE str(_)
str(n) == IF n < 10 THEN <<Digit[n + 1]>> ELSE str(n \div 10) \o <<Digit[(n % 10) + 1]>>

ValueError == -1

\* int(x) of a string: its value, or ValueError
RECURSIVE int(_)
int(x) ==
    IF x = <<>> \/ \E k \in 1..Len(x) : x[k] \notin DOMAIN DigitValue THEN ValueError
    ELSE IF Len(x) = 1 THEN DigitValue[x[1]]
    ELSE int(SubSeq(x, 1, Len(x) - 1)) * 10 + DigitValue[x[Len(x)]]

\* x[lo:hi] with lo and hi counted from the end (hi = 0 for x[lo:])
FromEnd(x, lo, hi) ==
    SubSeq(x, IF Len(x) - lo < 0 THEN 1 ELSE Len(x) - lo + 1, Len(x) - hi)

EntityChars ==
    [ind |-> <<"i", "n", "d">>, men |-> <<"m", "e", "n">>,
     fam |-> <<"f", "a", "m">>, foy |-> <<"f", "o", "y">>]

SurveyChars == <<"s", "u", "r", "v", "e", "y", "_">>

\* the keys of a store of the given layout holding the given years
StoreKeys(store) ==
    LET ys == SortedSeq(store.years)
        n == Len(list_entities)
    IN IF store.layout = 1
       THEN [k \in 1..Len(ys) |-> <<"/">> \o SurveyChars \o str(ys[k])]
       ELSE [k \in 1..(Len(ys) * n) |->
                <<"/">> \o SurveyChars \o str(ys[((k - 1) \div n) + 1]) \o <<"/">>
                    \o EntityChars[list_entities[((k - 1) % n) + 1]]]

\* sorted(a), repetitions kept
sorted(a) ==
    [k \in 1..Len(a) |->
        CHOOSE v \in Range(a) :
            /\ Cardinality({i \in 1..Len(a) : a[i] < v}) < k
            /\ k <= Cardinality({i \in 1..Len(a) : a[i] <= v})]

\* lines 233-236: the years read from the keys, or ValueError
available_years(nt, store) ==
    LET keys == StoreKeys(store)
        read == [k \in 1..Len(keys) |->
                    IF nt = 1 THEN int(FromEnd(keys[k], 4, 0)) ELSE int(FromEnd(keys[k], 8, 4))]
    IN IF \E k \in 1..Len(read) : read[k] = ValueError THEN <<ValueError>> ELSE sorted(read)

\* the population the store holds for a year
StoredPop(y) ==
    LET n == 1 + (y % MaxInd)
    IN TiedPop(n, [id |-> [i \in 1..n |-> 1], qui |-> [i \in 1..n |-> IF i = 1 THEN 0 ELSE 1]])

\* store[name]: the year of the table under the key, <<>> for a KeyError
StoreGet(store, name) ==
    LET hits == {y \in store.years :
                    \/ store.layout = 1 /\ <<"/">> \o name = <<"/">> \o SurveyChars \o str(y)
                    \/ store.layout = 3 /\ \E e \in DOMAIN EntityChars :
                          <<"/">> \o name = <<"/">> \o SurveyChars \o str(y) \o <<"/">> \o EntityChars[e]}
    IN IF hits = {} THEN <<>> ELSE str(CHOOSE y \in hits : TRUE)

\* lines 259-264: the survey read under base_name, year 0 when a key is not there
StoreRead(nt, store, base_name) ==
    LET names == IF nt = 1 THEN {base_name}
                 ELSE {base_name \o <<"/">> \o EntityChars[list_entities[k]] : k \in 1..Len(list_entities)}
    IN IF \E name \in names : StoreGet(store, name) = <<>> THEN 0
       ELSE int(StoreGet(store, CHOOSE name \in names : TRUE))

\* the condition of the while loop, line 247; "IndexError" when there is no
\* available year
Searching(yr, avail) ==
    IF avail = <<>> THEN "IndexError"
    ELSE IF yr \notin Range(avail) /\ yr > avail[1] THEN "True" ELSE "False"

H5Call(pc, store, year_ds, avail, yr, survey_year, loaded, out) ==
    [op |-> "populate_from_survey_data", pc |-> pc, store |-> store, year_ds |-> year_ds,
     available_years |-> avail, yr |-> yr, before |-> ret.survey_year,
     survey_year |-> survey_year, loaded |-> loaded] @@ out

\* lines 231-246: the store is opened, its years read and the search starts
\* at the requested year: year, or the year of datesim when year is None
\* (written 0)
OpenStore(store, year, datesim) ==
    LET avail == available_years(num_table, store)
        year_ds == IF year = 0 THEN datesim ELSE year
    IN /\ ret.pc = "done"
       /\ ret' = IF avail = <<ValueError>>
                 THEN H5Call("done", store, year_ds, <<>>, year_ds, ret.survey_year, 0,
                             Err("ValueError", {}))
                 ELSE H5Call("while", store, year_ds, avail, year_ds, ret.survey_year, 0,
                             Ok("none", <<>>))
       /\ UNCHANGED <<num_table, table, table3, index, nrows, build, written>>

\* SearchStep that goes back two years at a time
SearchStepSkipping ==
    /\ ret.pc = "while"
    /\ Searching(ret.yr, ret.available_years) = "True"
    /\ ret' = [ret EXCEPT !.yr = ret.yr - 2]
    /\ UNCHANGED <<num_table, table, table3, index, nrows, build, written>>

\* lines 247-248: one turn of the loop
SearchStep ==
    /\ ret.pc = "while"
    /\ Searching(ret.yr, ret.available_years) = "True"
    /\ ret' = [ret EXCEPT !.yr = ret.yr - 1]
    /\ UNCHANGED <<num_table, table, table3, index, nrows, build, written>>

\* line 247, the condition no longer true: the loop is left, with an
\* IndexError when there is no available year
LeaveLoop ==
    /\ ret.pc = "while"
    /\ Searching(ret.yr, ret.available_years) # "True"
    /\ ret' = IF Searching(ret.yr, ret.available_years) = "IndexError"
              THEN [ret EXCEPT !.pc = "done", !.kind = "error", !.val = "IndexError"]
              ELSE [ret EXCEPT !.pc = "load"]
    /\ UNCHANGED <<num_table, table, table3, index, nrows, build, written>>

\* lines 249-340, after the loop: survey_year is recorded, the tables of the
\* year are read and the DataTable is populated with them
load_year(nt, t, t3, idx, n, call) ==
    LET base_name == SurveyChars \o str(call.yr)
        survey_year == IF call.yr \in Range(call.available_years) THEN call.yr
                       ELSE call.survey_year
        read == StoreRead(nt, call.store, base_name)
        done == populate_from_survey_data(nt, t, t3, idx, Survey(nt, StoredPop(read), {}))
    IN IF read = 0
       THEN [s |-> Storage(nt, t, t3, n), index |-> idx, populated |-> FALSE,
             call |-> [call EXCEPT !.pc = "done", !.survey_year = survey_year,
                                   !.kind = "error", !.val = "KeyError"]]
       ELSE [s |-> done.s, index |-> done.index, populated |-> TRUE,
             call |-> [call EXCEPT !.pc = "done", !.survey_year = survey_year,
                                   !.loaded = read, !.kind = done.out.kind,
                                   !.val = done.out.val, !.names = done.out.names]]

LoadYear ==
    /\ ret.pc = "load"
    /\ LET left == load_year(num_table, table, table3, index, nrows, ret)
       IN /\ ret' = left.call
          /\ table' = left.s.table
          /\ table3' = left.s.table3
          /\ nrows' = left.s.nrows
          /\ index' = left.index
          /\ build' = IF left.populated
                      THEN [op |-> "populate_from_survey_data", lacked |-> {},
                            out |-> [kind |-> left.call.kind, val |-> left.call.val,
                                     names |-> left.call.names]]
                      ELSE build
          /\ written' = IF left.populated THEN NoWrite ELSE written
          /\ UNCHANGED num_table

(***************************************************************************)
(* SpecYear: a DataTable populated from .h5 stores, one call after the     *)
(* other.                                                                  *)
(***************************************************************************)
Stores == [layout : {1, 3}, years : SUBSET Years]

InitYear ==
    /\ num_table \in {1, 3}
    /\ table = EmptyFrame
    /\ table3 = [ent \in {"ind", "foy", "men"} |-> EmptyFrame]
    /\ index = EmptyFn
    /\ nrows = 0
    /\ ret = [op |-> "__init__", pc |-> "done", survey_year |-> 0] @@ Ok("none", <<>>)
    /\ build = [op |-> "", lacked |-> {}, out |-> Ok("none", <<>>)]
    /\ written = NoWrite

PopulateFromStore ==
    \E store \in Stores, year \in {0} \cup Years, datesim \in {2000 + MaxYear} :
        OpenStore(store, year, datesim)

NextYear == PopulateFromStore \/ SearchStep \/ LeaveLoop \/ LoadYear

\* a loop that can take a turn takes it; a loop that can be left is left
SpecYear == InitYear /\ [][NextYear]_vars /\ WF_vars(SearchStep) /\ WF_vars(LeaveLoop)

\* the available years not after the requested one
NotAfter == {y \in Range(ret.available_years) : y <= ret.year_ds}

Greatest(S) == CHOOSE y \in S : \A z \in S : z <= y

\* a call on a store whose keys gave a non-empty list of years has ended
SearchEnded ==
    ret.op = "populate_from_survey_data" /\ ret.pc = "done" /\ ret.available_years # <<>>

\* C29: the search of the survey year in an .h5 store ends, for every
\* requested year and every non-empty set of available years; the table
\* loaded is the one of the greatest available year not after the requested
\* year and survey_year is set to that year; when the requested year is
\* before the earliest available one, no table is loaded and survey_year is
\* left as it was.
C29_YearFallback ==
    /\ [](SearchEnded =>
            IF NotAfter # {}
            THEN /\ ret.loaded = Greatest(NotAfter)
                 /\ ret.survey_year = Greatest(NotAfter)
                 /\ nrows = StoredPop(Greatest(NotAfter)).n
                 /\ ret.kind # "error"
            ELSE /\ ret.loaded = 0
                 /\ ret.kind = "error"
                 /\ ret.survey_year = ret.before)
    /\ ((ret.pc = "while") ~> (ret.pc # "while"))

\* a call has ended on a year earlier than the requested one, after a
\* search of two turns at least
C29_Witness ==
    /\ SearchEnded
    /\ ret.loaded # 0
    /\ ret.loaded < ret.year_ds - 1
    /\ ret.survey_year = ret.loaded

=============================================================================
